---------------------------- MODULE Spec2Model ----------------------------
(***************************************************************************)
(* Tap-tempo LFO firmware (attiny84a): the signalling core of signaling.c  *)
(* and the interrupt handlers and background loop of main.c.               *)
(*                                                                         *)
(* The globals of the firmware are the variables below, under the names    *)
(* the source gives them.  Every C function is an operator that maps a     *)
(* memory record (one field per global) to the memory record it leaves;    *)
(* every interrupt handler and every interrupt-free stretch of the         *)
(* background loop is one action.  Handlers are declared with ISR(), which *)
(* keeps the global interrupt flag cleared while they run, and the         *)
(* background loop's tap handling runs inside ATOMIC_BLOCK: each of them   *)
(* is therefore a single step.                                             *)
(*                                                                         *)
(* Arithmetic.  TLC integers are 32-bit signed, so a uint32_t phase        *)
(* accumulator is the pair <<high 16 bits, low 16 bits>>.  The float       *)
(* expressions of RecalculateTempo and AdjustPhaseAccumulation are taken   *)
(* in exact rational arithmetic and truncated where the C code converts to *)
(* an integer; single-precision rounding of the intermediate values is not *)
(* modelled.  The multiplier ratios are the decimal literals of the        *)
(* source, in millionths.                                                  *)
(***************************************************************************)
EXTENDS Integers, Sequences, FiniteSets, TLC

VARIABLES
    g_base_tempo,                  \* uint16_t, milliseconds
    g_tempo_adjust_offset,         \* int16_t
    g_base_duty_cycle,             \* uint32_t (always below 2^31 here)
    g_duty_cycle,                  \* uint32_t (always below 2^31 here)
    g_base_phase_accumulator,      \* uint32_t as <<hi16, lo16>>
    g_phase_accumulator,           \* uint32_t as <<hi16, lo16>>
    g_base_table_index,            \* uint8_t
    g_table_index,                 \* uint8_t
    g_multiplier_alignment_index,  \* uint8_t
    g_waveform,                    \* Waveform enum, 0..6
    g_multiplier,                  \* Multiplier enum, 0..9
    g_depth_ratio,                 \* uint8_t
    g_depth_offset,                \* uint8_t
    g_depth_table,                 \* uint8_t[256]
    g_random_number,               \* uint8_t
    rand_next,                     \* state of the C library's rand()
    g_state,                       \* uint8_state_flags (bit fields)
    g_tempo_ms_count,              \* uint16_t
    g_mode_reset_ms_count,         \* uint16_t
    previous_sync_input,           \* static of ISR(PCINT1_vect), 0 or 1
    tempo_out,                     \* PORTA bit TEMPO_OUT
    ocr0a,                         \* OCR0A, the PWM compare register
    selection_mode,                \* which parameter the encoder adjusts
    pc,                            \* position of the background loop
    reg,                           \* g_state as loaded by the background loop
    last,                          \* history: the step taken last
    tap_ticks,                     \* history: 1 ms ticks since the tap that
                                   \* opened the count in flight, -1 if none
    samples,                       \* history: sample ticks taken so far
    base_wraps,                    \* history: wraps of the base accumulator
    wraps,                         \* history: wraps of g_table_index
    mode_events                    \* history: what the last press of the mode
                                   \* switch has led to so far

vars == <<g_base_tempo, g_tempo_adjust_offset, g_base_duty_cycle, g_duty_cycle,
          g_base_phase_accumulator, g_phase_accumulator, g_base_table_index,
          g_table_index, g_multiplier_alignment_index, g_waveform, g_multiplier,
          g_depth_ratio, g_depth_offset, g_depth_table, g_random_number, rand_next,
          g_state,
          g_tempo_ms_count, g_mode_reset_ms_count, previous_sync_input,
          tempo_out, ocr0a, selection_mode, pc, reg, last, tap_ticks, samples,
               base_wraps, wraps, mode_events>>

---------------------------------------------------------------------------
(* Program constants.                                                      *)

\* main.h is not among the sources; the values are those spec.md gives
\* (20 Hz and 0.1 Hz, an 8 MHz clock, a two second hold).
LFO_MIN_TEMPO == 10000
LFO_MAX_TEMPO == 50
MODE_RESET_MIN_TIME == 2000
CLOCK_FREQUENCY == 8000000

DEFAULT_TEMPO == 1000
MULTIPLIER_ALIGNMENT_OFFSET == 12
WAVEFORM_RESOLUTION == 256
WAVEFORM_RANDOM_STEP_COUNT == 8
WAVEFORM_STEP_SIZE == 255 \div WAVEFORM_RANDOM_STEP_COUNT
TIMER0_SAMPLE_RATE == CLOCK_FREQUENCY \div WAVEFORM_RESOLUTION
\* 0x100000000 / TIMER0_SAMPLE_RATE, an integer constant expression: 137438.
\* 2^32 does not fit a TLC integer; 2^32 = 65536 * 65536.
DUTY_CYCLE_DIVISOR ==
    LET q  == 65536 \div TIMER0_SAMPLE_RATE
        r  == 65536 % TIMER0_SAMPLE_RATE
    IN  (q * 65536) + ((r * 65536) \div TIMER0_SAMPLE_RATE)
TEMPO_TO_FREQUENCY == 1000

WaveformSine == 0
WaveformRampUp == 1
WaveformRampDown == 2
WaveformTriangle == 3
WaveformSquare == 4
WaveformQuadPulse == 5
WaveformRandom == 6
WaveformCount == 7

MultiplierWhole == 0
MultiplierDottedHalf == 1
MultiplierHalf == 2
MultiplierDottedQuarter == 3
MultiplierQuarter == 4
MultiplierDottedEighth == 5
MultiplierEighth == 6
MultiplierDottedSixteenth == 7
MultiplierTriplet == 8
MultiplierSixteenth == 9
MultiplierCount == 10

\* k_multiplier_ratio, in millionths (index 1 is MultiplierWhole).
k_multiplier_ratio ==
    <<250000, 333334, 500000, 666667, 1000000,
      1333334, 2000000, 2666667, 3000000, 4000000>>

k_multiplier_alignment == <<4, 3, 2, 3, 1, 3, 1, 3, 2, 1>>

k_sine_table ==
    <<  0,   0,   0,   0,   1,   1,   1,   2,   2,   3,   4,   5,   5,   6,   7,   9,
       10,  11,  12,  14,  15,  17,  18,  20,  21,  23,  25,  27,  29,  31,  33,  35,
       37,  40,  42,  44,  47,  49,  52,  54,  57,  59,  62,  65,  67,  70,  73,  76,
       79,  82,  85,  88,  90,  93,  97, 100, 103, 106, 109, 112, 115, 118, 121, 124>>

---------------------------------------------------------------------------
(* Fixed-width arithmetic.                                                 *)

U16(x) == x % 65536
I16(x) == LET u == x % 65536 IN IF u >= 32768 THEN u - 65536 ELSE u
U8(x) == x % 256

Zero32 == <<0, 0>>

\* a < b for the uint32_t pairs a and b.
Less32(a, b) == (a[1] < b[1]) \/ ((a[1] = b[1]) /\ (a[2] < b[2]))

\* a + d modulo 2^32, for a uint32_t pair a and 0 <= d < 2^31.
Add32(a, d) ==
    LET lo == a[2] + (d % 65536)
        hi == a[1] + (d \div 65536) + (lo \div 65536)
    IN  <<hi % 65536, lo % 65536>>

\* (a & 0xff000000) >> 24
Top8(a) == a[1] \div 256

\* floor(d * micro / 10^6) for 0 <= d < 2^22 and 0 <= micro < 2^23, without
\* leaving 32 bits: d = d1*1000 + d0, micro = n1*1000 + n0.
MulMicro(d, micro) ==
    LET d1 == d \div 1000
        d0 == d % 1000
        n1 == micro \div 1000
        n0 == micro % 1000
    IN  (d1 * n1) + (((d1 * n0) + (d0 * n1) + ((d0 * n0) \div 1000)) \div 1000)

---------------------------------------------------------------------------
(* The memory of the firmware as one record, and the C functions of        *)
(* signaling.c as operators from memory to memory.                         *)

Mem ==
    [g_base_tempo |-> g_base_tempo,
     g_tempo_adjust_offset |-> g_tempo_adjust_offset,
     g_base_duty_cycle |-> g_base_duty_cycle,
     g_duty_cycle |-> g_duty_cycle,
     g_base_phase_accumulator |-> g_base_phase_accumulator,
     g_phase_accumulator |-> g_phase_accumulator,
     g_base_table_index |-> g_base_table_index,
     g_table_index |-> g_table_index,
     g_multiplier_alignment_index |-> g_multiplier_alignment_index,
     g_waveform |-> g_waveform,
     g_multiplier |-> g_multiplier,
     g_depth_ratio |-> g_depth_ratio,
     g_depth_offset |-> g_depth_offset,
     g_depth_table |-> g_depth_table,
     g_random_number |-> g_random_number,
     rand_next |-> rand_next,
     g_state |-> g_state,
     g_tempo_ms_count |-> g_tempo_ms_count,
     g_mode_reset_ms_count |-> g_mode_reset_ms_count,
     tempo_out |-> tempo_out,
     ocr0a |-> ocr0a,
     selection_mode |-> selection_mode]

\* The state holds the memory m.
Loaded(m) ==
    /\ g_base_tempo = m.g_base_tempo
    /\ g_tempo_adjust_offset = m.g_tempo_adjust_offset
    /\ g_base_duty_cycle = m.g_base_duty_cycle
    /\ g_duty_cycle = m.g_duty_cycle
    /\ g_base_phase_accumulator = m.g_base_phase_accumulator
    /\ g_phase_accumulator = m.g_phase_accumulator
    /\ g_base_table_index = m.g_base_table_index
    /\ g_table_index = m.g_table_index
    /\ g_multiplier_alignment_index = m.g_multiplier_alignment_index
    /\ g_waveform = m.g_waveform
    /\ g_multiplier = m.g_multiplier
    /\ g_depth_ratio = m.g_depth_ratio
    /\ g_depth_offset = m.g_depth_offset
    /\ g_depth_table = m.g_depth_table
    /\ g_random_number = m.g_random_number
    /\ rand_next = m.rand_next
    /\ g_state = m.g_state
    /\ g_tempo_ms_count = m.g_tempo_ms_count
    /\ g_mode_reset_ms_count = m.g_mode_reset_ms_count
    /\ tempo_out = m.tempo_out
    /\ ocr0a = m.ocr0a
    /\ selection_mode = m.selection_mode

\* The memory m becomes the next state's memory.
Commit(m) ==
    /\ g_base_tempo' = m.g_base_tempo
    /\ g_tempo_adjust_offset' = m.g_tempo_adjust_offset
    /\ g_base_duty_cycle' = m.g_base_duty_cycle
    /\ g_duty_cycle' = m.g_duty_cycle
    /\ g_base_phase_accumulator' = m.g_base_phase_accumulator
    /\ g_phase_accumulator' = m.g_phase_accumulator
    /\ g_base_table_index' = m.g_base_table_index
    /\ g_table_index' = m.g_table_index
    /\ g_multiplier_alignment_index' = m.g_multiplier_alignment_index
    /\ g_waveform' = m.g_waveform
    /\ g_multiplier' = m.g_multiplier
    /\ g_depth_ratio' = m.g_depth_ratio
    /\ g_depth_offset' = m.g_depth_offset
    /\ g_depth_table' = m.g_depth_table
    /\ g_random_number' = m.g_random_number
    /\ rand_next' = m.rand_next
    /\ g_state' = m.g_state
    /\ g_tempo_ms_count' = m.g_tempo_ms_count
    /\ g_mode_reset_ms_count' = m.g_mode_reset_ms_count
    /\ tempo_out' = m.tempo_out
    /\ ocr0a' = m.ocr0a
    /\ selection_mode' = m.selection_mode

\* void ResetBaseTempo()
ResetBaseTempo(m) ==
    [m EXCEPT !.g_base_table_index = 0,
              !.g_base_phase_accumulator = Zero32]

\* RecalculateTempo() with its last assignment lost: g_duty_cycle is left
\* as it was.  A faulty variant, against which C5 is tested.
RecalculateTempo_BaseOnly(m) ==
    LET period == U16(m.g_base_tempo + m.g_tempo_adjust_offset)
    IN  [m EXCEPT !.g_base_duty_cycle =
                      IF period = 0 THEN 0
                      ELSE (TEMPO_TO_FREQUENCY * DUTY_CYCLE_DIVISOR) \div period]

\* void RecalculateTempo(): new_frequency = 1000.0f / (g_base_tempo +
\* g_tempo_adjust_offset); g_base_duty_cycle = new_frequency *
\* DUTY_CYCLE_DIVISOR; g_duty_cycle = g_base_duty_cycle * ratio.  The sum is
\* taken in 16-bit unsigned arithmetic (int is 16 bits wide on the AVR).
\* The test for a period of 0 only keeps the operator total.
RecalculateTempo(m) ==
    LET period == U16(m.g_base_tempo + m.g_tempo_adjust_offset)
        base   == IF period = 0 THEN 0
                  ELSE (TEMPO_TO_FREQUENCY * DUTY_CYCLE_DIVISOR) \div period
    IN  [m EXCEPT !.g_base_duty_cycle = base,
                  !.g_duty_cycle =
                      MulMicro(base, k_multiplier_ratio[m.g_multiplier + 1])]

\* SetBaseTempo() without the test against LFO_MAX_TEMPO.  A faulty variant,
\* against which C1 is tested.
SetBaseTempo_NoFastLimit(m, milliseconds) ==
    IF milliseconds > LFO_MIN_TEMPO
    THEN m
    ELSE IF (m.g_base_tempo > U16(milliseconds + 2))
            \/ (m.g_base_tempo < U16(milliseconds - 2))
         THEN RecalculateTempo([m EXCEPT !.g_base_tempo = milliseconds,
                                         !.g_tempo_adjust_offset = 0])
         ELSE m

\* SetBaseTempo() with >= and <= for > and < in the hysteresis test.  A
\* faulty variant, against which C10 is tested.
SetBaseTempo_NarrowWindow(m, milliseconds) ==
    IF (milliseconds > LFO_MIN_TEMPO) \/ (milliseconds < LFO_MAX_TEMPO)
    THEN m
    ELSE IF (m.g_base_tempo >= U16(milliseconds + 2))
            \/ (m.g_base_tempo <= U16(milliseconds - 2))
         THEN RecalculateTempo([m EXCEPT !.g_base_tempo = milliseconds,
                                         !.g_tempo_adjust_offset = 0])
         ELSE m

\* void SetBaseTempo(uint16_t milliseconds)
SetBaseTempo(m, milliseconds) ==
    IF (milliseconds > LFO_MIN_TEMPO) \/ (milliseconds < LFO_MAX_TEMPO)
    THEN m
    ELSE IF (m.g_base_tempo > U16(milliseconds + 2))
            \/ (m.g_base_tempo < U16(milliseconds - 2))
         THEN RecalculateTempo([m EXCEPT !.g_base_tempo = milliseconds,
                                         !.g_tempo_adjust_offset = 0])
         ELSE m

\* void AlignWaveform()
AlignWaveform(m) ==
    LET index == IF m.g_multiplier_alignment_index >= MULTIPLIER_ALIGNMENT_OFFSET
                 THEN 0 ELSE m.g_multiplier_alignment_index
        m1    == IF index % k_multiplier_alignment[m.g_multiplier + 1] = 0
                 THEN [m EXCEPT !.g_phase_accumulator = Zero32]
                 ELSE m
    IN  [m1 EXCEPT !.g_multiplier_alignment_index = U8(index + 1)]

\* void StartTempoCount()
StartTempoCount(m) ==
    AlignWaveform(ResetBaseTempo(
        [m EXCEPT !.g_tempo_ms_count = 0,
                  !.g_state.is_counting_tempo = 1]))

\* StopTempoCount() clearing g_tempo_ms_count before it hands it to
\* SetBaseTempo().  A faulty variant, against which C2 is tested.
StopTempoCount_CountCleared(m) ==
    LET m1 == IF m.g_state.is_counting_tempo = 1
              THEN SetBaseTempo([m EXCEPT !.g_state.is_counting_tempo = 0,
                                          !.g_tempo_ms_count = 0], 0)
              ELSE m
    IN  AlignWaveform(ResetBaseTempo(m1))

\* StopTempoCount() without g_tempo_ms_count = 0.  A faulty variant, against
\* which C12 is tested.
StopTempoCount_KeepsCount(m) ==
    LET m1 == IF m.g_state.is_counting_tempo = 1
              THEN SetBaseTempo([m EXCEPT !.g_state.is_counting_tempo = 0],
                                m.g_tempo_ms_count)
              ELSE m
    IN  AlignWaveform(ResetBaseTempo(m1))

\* void StopTempoCount()
StopTempoCount(m) ==
    LET m1 == IF m.g_state.is_counting_tempo = 1
              THEN [SetBaseTempo([m EXCEPT !.g_state.is_counting_tempo = 0],
                                 m.g_tempo_ms_count)
                       EXCEPT !.g_tempo_ms_count = 0]
              ELSE m
    IN  AlignWaveform(ResetBaseTempo(m1))

\* TempoCountTimeout() clearing the count only.  A faulty variant, against
\* which C3 is tested.
TempoCountTimeout_StillCounting(m) ==
    [m EXCEPT !.g_tempo_ms_count = 0]

\* void TempoCountTimeout()
TempoCountTimeout(m) ==
    [m EXCEPT !.g_state.is_counting_tempo = 0,
              !.g_tempo_ms_count = 0]

\* void ResetSignals()
ResetSignals(m) ==
    [ResetBaseTempo(m) EXCEPT !.g_phase_accumulator = Zero32,
                              !.g_table_index = 0,
                              !.g_multiplier_alignment_index = 0]

\* AdjustSpeed() without its test against the limits.  A faulty variant,
\* against which C11 is tested.
AdjustSpeed_NoLimits(m, change_value) ==
    RecalculateTempo(
        [m EXCEPT !.g_tempo_adjust_offset =
                      I16(m.g_tempo_adjust_offset + change_value)])

\* void AdjustSpeed(int16_t change_value)
AdjustSpeed(m, change_value) ==
    LET new_tempo_count ==
            I16(m.g_base_tempo + m.g_tempo_adjust_offset + change_value)
    IN  IF (new_tempo_count > LFO_MIN_TEMPO) \/ (new_tempo_count < LFO_MAX_TEMPO)
        THEN m
        ELSE RecalculateTempo(
                 [m EXCEPT !.g_tempo_adjust_offset =
                               I16(m.g_tempo_adjust_offset + change_value)])

\* void ResetSpeedAdjustSetting()
ResetSpeedAdjustSetting(m) ==
    RecalculateTempo([m EXCEPT !.g_tempo_adjust_offset = 0])

\* floor(a * k / 10^6) for a uint32_t pair a and 0 <= k < 2^26, as the pair
\* <<floor / 65536, floor % 65536>>; the first component is 65536 or more
\* when the product does not fit 32 bits.  Long multiplication in base 1000.
MulDivMicro(a, k) ==
    LET t0 == ((a[1] % 1000) * 65536) + a[2]
        a0 == t0 % 1000
        q1 == <<a[1] \div 1000, t0 \div 1000>>   \* a \div 1000
        t1 == ((q1[1] % 1000) * 65536) + q1[2]
        a1 == t1 % 1000
        q2 == <<q1[1] \div 1000, t1 \div 1000>>  \* a \div 10^6
        t2 == ((q2[1] % 1000) * 65536) + q2[2]
        a2 == t2 % 1000
        a3 == t2 \div 1000
        k0 == k % 1000
        k1 == (k \div 1000) % 1000
        k2 == k \div 1000000
        low == ((a1 * k0) + (a0 * k1) + ((a0 * k0) \div 1000)) \div 1000
        c0 == (a2 * k0) + (a1 * k1) + (a0 * k2) + low
        c1 == (a3 * k0) + (a2 * k1) + (a1 * k2)
        c2 == (a3 * k1) + (a2 * k2)
        c3 == a3 * k2
        Step(h, c) == LET t == (h[2] * 1000) + c
                      IN  <<(h[1] * 1000) + (t \div 65536), t % 65536>>
    IN  Step(Step(Step(<<0, c3>>, c2), c1), c0)

\* What the conversion of a float beyond the range of uint32_t may give
\* (undefined behaviour in C): the value modulo 2^32, 0, or 0xffffffff.
ConversionOutcomes == {"wrap", "zero", "max"}

\* void AdjustPhaseAccumulation(): g_phase_accumulator =
\* g_base_phase_accumulator * (ratio * g_multiplier_alignment_index).
AdjustPhaseAccumulation(m, ub) ==
    LET r == MulDivMicro(m.g_base_phase_accumulator,
                         k_multiplier_ratio[m.g_multiplier + 1]
                             * m.g_multiplier_alignment_index)
        v == IF r[1] < 65536 THEN r
             ELSE CASE ub = "wrap" -> <<r[1] % 65536, r[2]>>
                    [] ub = "zero" -> Zero32
                    [] OTHER       -> <<65535, 65535>>
    IN  [m EXCEPT !.g_phase_accumulator = v]

\* SetMultiplier() going round from either end to the other.  A faulty
\* variant, against which C18 is tested.
SetMultiplier_Wraps(m, change_value, ub) ==
    LET multiplier ==
            IF (m.g_multiplier = MultiplierWhole) /\ (change_value < 0)
            THEN MultiplierSixteenth
            ELSE IF (m.g_multiplier = MultiplierSixteenth) /\ (change_value > 0)
                 THEN MultiplierWhole
                 ELSE m.g_multiplier + change_value
    IN  IF multiplier # m.g_multiplier
        THEN AdjustPhaseAccumulation(
                 RecalculateTempo([m EXCEPT !.g_multiplier = multiplier]), ub)
        ELSE m

\* void SetMultiplier(int8_t change_value)
SetMultiplier(m, change_value, ub) ==
    LET multiplier ==
            IF (m.g_multiplier = MultiplierWhole) /\ (change_value < 0)
            THEN MultiplierWhole
            ELSE IF (m.g_multiplier = MultiplierSixteenth) /\ (change_value > 0)
                 THEN MultiplierSixteenth
                 ELSE m.g_multiplier + change_value
    IN  IF multiplier # m.g_multiplier
        THEN AdjustPhaseAccumulation(
                 RecalculateTempo([m EXCEPT !.g_multiplier = multiplier]), ub)
        ELSE m

\* void ResetMultiplierSetting()
ResetMultiplierSetting(m, ub) ==
    IF m.g_multiplier # MultiplierQuarter
    THEN AdjustPhaseAccumulation(
             RecalculateTempo([m EXCEPT !.g_multiplier = MultiplierQuarter]), ub)
    ELSE m

\* CalcSignalDepth() without g_depth_offset in the sum.  A faulty variant,
\* against which C15 is tested.
CalcSignalDepth_NoOffset(m, value) ==
    IF m.g_depth_ratio = 100
    THEN value
    ELSE (value * m.g_depth_ratio) \div 100

\* uint8_t CalcSignalDepth(uint8_t value): the float sum g_depth_offset +
\* value * g_depth_ratio / 100.0f, truncated.
CalcSignalDepth(m, value) ==
    IF m.g_depth_ratio = 100
    THEN value
    ELSE m.g_depth_offset + ((value * m.g_depth_ratio) \div 100)

\* void CalcDepthTable(): each loop of the switch, entry by entry.  Sine
\* writes [i], [255 - i], [127 - i] and [128 + i] for i < 64; Triangle writes
\* [i] and [255 - i] for i < 128; Square copies entry 0 and QuadPulse entry
\* 0xff, which the code sets before its loop.
CalcDepthTable(m) ==
    LET D(v) == CalcSignalDepth(m, v)
        sine(i) == k_sine_table[i + 1]
        table ==
            CASE m.g_waveform = WaveformSine ->
                   [i \in 0..255 |->
                       IF i < 64 THEN D(sine(i))
                       ELSE IF i < 128 THEN D(255 - sine(127 - i))
                       ELSE IF i < 192 THEN D(255 - sine(i - 128))
                       ELSE D(sine(255 - i))]
              [] m.g_waveform \in {WaveformRampUp, WaveformRandom} ->
                   [i \in 0..255 |-> D(i)]
              [] m.g_waveform = WaveformRampDown ->
                   [i \in 0..255 |-> D(255 - i)]
              [] m.g_waveform = WaveformTriangle ->
                   [i \in 0..255 |->
                       IF i < 128 THEN D(i * 2) ELSE D((255 - i) * 2)]
              [] m.g_waveform = WaveformSquare ->
                   [i \in 0..255 |-> IF i < 128 THEN D(0) ELSE 255]
              [] m.g_waveform = WaveformQuadPulse ->
                   [i \in 0..255 |->
                       IF \/ (i >= 0) /\ (i < 16)
                          \/ (i >= 32) /\ (i < 48)
                          \/ (i >= 64) /\ (i < 80)
                          \/ (i >= 96) /\ (i < 112)
                       THEN 255 ELSE D(0)]
              [] OTHER -> m.g_depth_table
    IN  [m EXCEPT !.g_depth_table = table]

\* void SetWaveform(int8_t change_value)
SetWaveform(m, change_value) ==
    LET waveform ==
            IF (m.g_waveform = WaveformSine) /\ (change_value < 0)
            THEN WaveformRandom
            ELSE IF (m.g_waveform = WaveformRandom) /\ (change_value > 0)
                 THEN WaveformSine
                 ELSE m.g_waveform + change_value
    IN  CalcDepthTable([m EXCEPT !.g_waveform = waveform])

\* void ResetWaveformSetting()
ResetWaveformSetting(m) ==
    [m EXCEPT !.g_waveform = WaveformSine]

\* SetDepth() without the branch that steps up from a depth of 0.  A faulty
\* variant, against which C17 is tested.
SetDepth_StuckAtZero(m, change_value) ==
    LET updateDepthTable ==
            \/ (m.g_depth_ratio >= 5) /\ (m.g_depth_ratio <= 95)
            \/ (change_value < 0) /\ (m.g_depth_ratio = 100)
        ratio == IF updateDepthTable
                 THEN U8(m.g_depth_ratio + (change_value * 5))
                 ELSE m.g_depth_ratio
        m1 == [m EXCEPT !.g_depth_ratio = ratio,
                        !.g_depth_offset = (255 * (100 - ratio)) \div 100]
    IN  IF updateDepthTable THEN CalcDepthTable(m1) ELSE m1

\* SetDepth() stepping whatever the depth.  A faulty variant, against which
\* C23 is tested.
SetDepth_NoClamp(m, change_value) ==
    LET ratio == U8(m.g_depth_ratio + (change_value * 5))
    IN  CalcDepthTable(
            [m EXCEPT !.g_depth_ratio = ratio,
                      !.g_depth_offset = U8((255 * (100 - ratio)) \div 100)])

\* void SetDepth(int8_t change_value)
SetDepth(m, change_value) ==
    LET updateDepthTable ==
            \/ (m.g_depth_ratio >= 5) /\ (m.g_depth_ratio <= 95)
            \/ (change_value > 0) /\ (m.g_depth_ratio = 0)
            \/ (change_value < 0) /\ (m.g_depth_ratio = 100)
        ratio == IF updateDepthTable
                 THEN U8(m.g_depth_ratio + (change_value * 5))
                 ELSE m.g_depth_ratio
        m1 == [m EXCEPT !.g_depth_ratio = ratio,
                        !.g_depth_offset = (255 * (100 - ratio)) \div 100]
    IN  IF updateDepthTable THEN CalcDepthTable(m1) ELSE m1

\* void ResetDepthSetting()
ResetDepthSetting(m) ==
    CalcDepthTable([m EXCEPT !.g_depth_ratio = 100, !.g_depth_offset = 0])

\* srand() and rand() of the C library (avr-libc): the minimal standard
\* generator x' = 16807 * x mod (2^31 - 1) by Schrage's method, a state of 0
\* replaced by 123459876, the value returned being x' % (RAND_MAX + 1) with
\* RAND_MAX = 0x7fff.  srand() takes an unsigned int, 16 bits wide.
RandStep(x) ==
    LET x0 == IF x = 0 THEN 123459876 ELSE x
        hi == x0 \div 127773
        lo == x0 % 127773
        x1 == (16807 * lo) - (2836 * hi)
    IN  IF x1 < 0 THEN x1 + 2147483647 ELSE x1

\* void SeedRandomNumberGenerator(uint32_t seed)
SeedRandomNumberGenerator(m, seed) ==
    [m EXCEPT !.rand_next = U16(seed)]

\* void UpdateRandomNumber()
UpdateRandomNumber(m) ==
    LET x == RandStep(m.rand_next)
    IN  [m EXCEPT !.rand_next = x,
                  !.g_random_number =
                      ((x % 32768) % WAVEFORM_RANDOM_STEP_COUNT)
                          * WAVEFORM_STEP_SIZE]

\* PlotWaveform() advancing the working phase by the base duty cycle.  A
\* faulty variant, against which C19 is tested.
PlotWaveform_BaseDuty(m) ==
    LET previous_table_index == m.g_table_index
        phase == Add32(m.g_phase_accumulator, m.g_base_duty_cycle)
        index == Top8(phase)
        m1 == [m EXCEPT !.g_phase_accumulator = phase,
                        !.g_table_index = index,
                        !.ocr0a = IF m.g_waveform = WaveformRandom
                                  THEN m.g_depth_table[m.g_random_number]
                                  ELSE m.g_depth_table[index]]
    IN  IF previous_table_index > index
        THEN UpdateRandomNumber([m1 EXCEPT !.tempo_out = 1 - m.tempo_out])
        ELSE m1

\* void PlotWaveform()
PlotWaveform(m) ==
    LET previous_table_index == m.g_table_index
        phase == Add32(m.g_phase_accumulator, m.g_duty_cycle)
        index == Top8(phase)
        m1 == [m EXCEPT !.g_phase_accumulator = phase,
                        !.g_table_index = index,
                        !.ocr0a = IF m.g_waveform = WaveformRandom
                                  THEN m.g_depth_table[m.g_random_number]
                                  ELSE m.g_depth_table[index]]
    IN  IF previous_table_index > index
        THEN UpdateRandomNumber([m1 EXCEPT !.tempo_out = 1 - m.tempo_out])
        ELSE m1

---------------------------------------------------------------------------
(* The mode collaborator (switching.c is not among the sources): the mode  *)
(* selects which of waveform, multiplier, depth and speed trim the encoder *)
(* adjusts, as spec.md describes it.                                       *)

SelectionModes == <<"waveform", "multiplier", "depth", "speed">>

\* void SetNextSelectionMode(): the next of the four modes, in a ring.
SetNextSelectionMode(m) ==
    LET i == CHOOSE k \in 1..Len(SelectionModes) :
                 SelectionModes[k] = m.selection_mode
    IN  [m EXCEPT !.selection_mode =
                      SelectionModes[(i % Len(SelectionModes)) + 1]]

\* void ResetCurrentSelectionMode()
ResetCurrentSelectionMode(m, ub) ==
    CASE m.selection_mode = "waveform"   -> ResetWaveformSetting(m)
      [] m.selection_mode = "multiplier" -> ResetMultiplierSetting(m, ub)
      [] m.selection_mode = "depth"      -> ResetDepthSetting(m)
      [] OTHER                           -> ResetSpeedAdjustSetting(m)

---------------------------------------------------------------------------
(* The interrupt handlers of main.c, as functions of the memory.           *)

\* ISR(TIM0_OVF_vect): the sample tick
TIM0_OVF(m) ==
    LET phase == Add32(m.g_base_phase_accumulator, m.g_base_duty_cycle)
    IN  PlotWaveform([m EXCEPT !.g_base_phase_accumulator = phase,
                               !.g_base_table_index = Top8(phase)])

\* ISR(TIM1_COMPA_vect): the 1 ms tick.  DebounceSwitches() samples the
\* pins; the closures it detects reach the model as the background loop's
\* inputs.  g_speed_adjustment_ms_count, which the handler only counts up
\* and only the mode collaborator reads, is not part of the state.
TIM1_COMPA(m, ub) ==
    LET count == U16(m.g_tempo_ms_count + 1)
        m1 == IF m.g_state.is_counting_tempo = 1
              THEN IF count > LFO_MIN_TEMPO
                   THEN TempoCountTimeout([m EXCEPT !.g_tempo_ms_count = count])
                   ELSE [m EXCEPT !.g_tempo_ms_count = count]
              ELSE m
        reset == U16(m1.g_mode_reset_ms_count + 1)
    IN  IF m1.g_state.is_counting_mode_reset_time = 1
        THEN IF reset >= MODE_RESET_MIN_TIME
             THEN ResetCurrentSelectionMode(
                      [m1 EXCEPT !.g_state.is_resetting_mode = 1,
                                 !.g_state.is_counting_mode_reset_time = 0,
                                 !.g_mode_reset_ms_count = 0], ub)
             ELSE [m1 EXCEPT !.g_mode_reset_ms_count = reset]
        ELSE m1

\* ISR(PCINT1_vect) with the two edges exchanged.  A faulty variant, against
\* which C21 is tested.
PCINT1_Inverted(m, sync_input) ==
    IF sync_input # 0 THEN StartTempoCount(m) ELSE StopTempoCount(m)

\* ISR(PCINT1_vect), after a change of the sync pin to sync_input
PCINT1(m, sync_input) ==
    IF sync_input # 0 THEN StopTempoCount(m) ELSE StartTempoCount(m)

\* main(), lines 218 to 236: the ATOMIC_BLOCK run on a tap closure
TapBlock(m) ==
    IF m.g_state.is_counting_tempo = 0
    THEN StartTempoCount(ResetSignals(m))
    ELSE [StopTempoCount(ResetSignals(m))
             EXCEPT !.g_state.has_received_tap_input = 1]

---------------------------------------------------------------------------
(* Start-up: the zero-initialised globals with their initialisers, then    *)
(* main() up to sei().                                                     *)

NoFlags ==
    [is_counting_tempo |-> 0,
     has_received_tap_input |-> 0,
     has_random_seed |-> 0,
     is_counting_mode_reset_time |-> 0,
     is_resetting_mode |-> 0]

Startup ==
    [g_base_tempo |-> 0,
     g_tempo_adjust_offset |-> 0,
     g_base_duty_cycle |-> 0,
     g_duty_cycle |-> 0,
     g_base_phase_accumulator |-> Zero32,
     g_phase_accumulator |-> Zero32,
     g_base_table_index |-> 255,
     g_table_index |-> 0,
     g_multiplier_alignment_index |-> 0,
     g_waveform |-> WaveformSine,
     g_multiplier |-> MultiplierQuarter,
     g_depth_ratio |-> 100,
     g_depth_offset |-> 0,
     g_depth_table |-> [i \in 0..255 |-> 0],
     g_random_number |-> 0,
     rand_next |-> 1,
     g_state |-> NoFlags,
     g_tempo_ms_count |-> 0,
     g_mode_reset_ms_count |-> 0,
     tempo_out |-> 1,
     ocr0a |-> 0,
     selection_mode |-> SelectionModes[1]]

\* void InitializeSwitching() (switching.c is not among the sources): the
\* set-up of the switches and of the mode selection, which spec.md places
\* outside the signalling core; it leaves the signalling globals alone.
InitializeSwitching(m) ==
    [m EXCEPT !.selection_mode = SelectionModes[1]]

\* main(), lines 101 to 183
MainInit ==
    SetBaseTempo(
        UpdateRandomNumber(
            SeedRandomNumberGenerator(InitializeSwitching(Startup), 0)),
        DEFAULT_TEMPO)

\* The record of a step: what ran, and its argument (for a tap closure,
\* tap_ticks as the closure found it).
Did(op, arg) == [op |-> op, arg |-> arg]

Init ==
    /\ Loaded(MainInit)
    /\ previous_sync_input = 0
    /\ pc = "poll"
    /\ reg = NoFlags
    /\ last = Did("init", 0)
    /\ tap_ticks = -1
    /\ samples = 0
    /\ base_wraps = 0
    /\ wraps = 0
    /\ mode_events = <<>>

---------------------------------------------------------------------------
(* Actions: one per interrupt handler, one per interrupt-free stretch of   *)
(* the background loop, one per call of the interface of signaling.c.      *)

\* The sample tick.
TIM0_OVF_vect ==
    /\ Commit(TIM0_OVF(Mem))
    /\ samples' = samples + 1
    /\ base_wraps' = IF Less32(TIM0_OVF(Mem).g_base_phase_accumulator,
                               g_base_phase_accumulator)
                     THEN base_wraps + 1 ELSE base_wraps
    /\ wraps' = IF TIM0_OVF(Mem).g_table_index < g_table_index
                THEN wraps + 1 ELSE wraps
    /\ last' = Did("sample", 0)
    /\ UNCHANGED <<previous_sync_input, pc, reg, tap_ticks, mode_events>>

\* The 1 ms tick.  The conversion outcome matters only when the tick resets
\* the multiplier.
TIM1_COMPA_vect ==
    /\ \E ub \in (IF /\ g_state.is_counting_mode_reset_time = 1
                     /\ selection_mode = "multiplier"
                  THEN ConversionOutcomes ELSE {"wrap"}) :
           Commit(TIM1_COMPA(Mem, ub))
    /\ last' = Did(IF /\ g_state.is_counting_tempo = 1
                      /\ g_tempo_ms_count + 1 > LFO_MIN_TEMPO
                   THEN "timeout" ELSE "tick", 0)
    /\ tap_ticks' = IF (tap_ticks < 0) \/ (tap_ticks + 1 > LFO_MIN_TEMPO)
                    THEN -1 ELSE tap_ticks + 1
    /\ mode_events' =
           IF /\ g_state.is_counting_mode_reset_time = 1
              /\ U16(g_mode_reset_ms_count + 1) >= MODE_RESET_MIN_TIME
           THEN Append(mode_events, "reset") ELSE mode_events
    /\ UNCHANGED <<previous_sync_input, pc, reg, samples,
               base_wraps, wraps>>

\* An edge on the sync pin: the handler finds the pin changed.
PCINT1_vect ==
    /\ previous_sync_input' = 1 - previous_sync_input
    /\ Commit(PCINT1(Mem, 1 - previous_sync_input))
    /\ last' = Did("sync", 1 - previous_sync_input)
    /\ tap_ticks' = -1
    /\ UNCHANGED <<pc, reg, samples,
               base_wraps, wraps, mode_events>>

\* main(), lines 210 to 246: a tap closure is found, the ATOMIC_BLOCK runs,
\* and the two flags that guard the seeding are tested (only the background
\* loop writes them).
MainTap ==
    /\ pc = "poll"
    /\ LET m == TapBlock(Mem)
       IN  /\ Commit(m)
           /\ pc' = IF /\ m.g_state.has_random_seed = 0
                       /\ m.g_state.has_received_tap_input = 0
                    THEN "seed_load" ELSE "poll"
    /\ last' = Did(IF g_state.is_counting_tempo = 0
                   THEN "tap_open" ELSE "tap_close", tap_ticks)
    /\ tap_ticks' = IF g_state.is_counting_tempo = 0 THEN 0 ELSE -1
    /\ UNCHANGED <<previous_sync_input, reg, samples,
               base_wraps, wraps, mode_events>>

\* main(), line 248: g_state.has_random_seed = 1 is a load, an OR and a
\* store of the flag byte; handlers may run in between.
MainSeedLoad ==
    /\ pc = "seed_load"
    /\ reg' = g_state
    /\ pc' = "seed_store"
    /\ Commit(Mem)
    /\ last' = Did("seed", 0)
    /\ UNCHANGED <<previous_sync_input, tap_ticks, samples,
               base_wraps, wraps, mode_events>>

MainSeedStore ==
    /\ pc = "seed_store"
    /\ Commit([Mem EXCEPT !.g_state = [reg EXCEPT !.has_random_seed = 1]])
    /\ pc' = "seed_srand"
    /\ last' = Did("seed", 0)
    /\ UNCHANGED <<previous_sync_input, reg, tap_ticks, samples,
               base_wraps, wraps, mode_events>>

\* main(), lines 250 and 251
MainSeedRand ==
    /\ pc = "seed_srand"
    /\ Commit(UpdateRandomNumber(SeedRandomNumberGenerator(Mem, g_tempo_ms_count)))
    /\ pc' = "poll"
    /\ last' = Did("seed", g_tempo_ms_count)
    /\ UNCHANGED <<previous_sync_input, reg, tap_ticks, samples,
               base_wraps, wraps, mode_events>>

MainSeed == MainSeedLoad \/ MainSeedStore \/ MainSeedRand

\* An assignment to one flag of g_state by the background loop, outside any
\* ATOMIC_BLOCK: a load of the flag byte at pc = at, then (handlers may run
\* in between) the store of the changed byte, which leads to pc = to.
FlagLoad(at, to) ==
    /\ pc = at
    /\ reg' = g_state
    /\ pc' = to
    /\ Commit(Mem)
    /\ last' = Did("mode", 0)
    /\ UNCHANGED <<previous_sync_input, tap_ticks, samples,
               base_wraps, wraps, mode_events>>

FlagStore(at, to, flags) ==
    /\ pc = at
    /\ Commit([Mem EXCEPT !.g_state = flags])
    /\ pc' = to
    /\ last' = Did("mode", 0)
    /\ UNCHANGED <<previous_sync_input, reg, tap_ticks, samples,
               base_wraps, wraps, mode_events>>

\* The debounced mode switch as the background loop saw it last.
ModeSwitchClosed ==
    /\ mode_events # <<>>
    /\ \A k \in 1..Len(mode_events) : mode_events[k] # "release"

\* main(), lines 256 to 259: the mode switch was closed.
MainModeClosed ==
    \/ /\ pc = "poll"
       /\ ~ModeSwitchClosed
       /\ reg' = g_state
       /\ pc' = "closed_store"
       /\ Commit(Mem)
       /\ last' = Did("mode", 0)
       /\ mode_events' = <<"press">>
       /\ UNCHANGED <<previous_sync_input, tap_ticks, samples,
                      base_wraps, wraps>>
    \/ FlagStore("closed_store", "poll",
                 [reg EXCEPT !.is_counting_mode_reset_time = 1])

\* main(), lines 261 to 288: the mode switch was opened.  After a reset by
\* holding, the release only clears is_resetting_mode; otherwise the hold
\* counting is cancelled (flag, then counter) and the next mode selected
\* inside an ATOMIC_BLOCK.
MainModeOpenedTest ==
    /\ pc = "poll"
    /\ ModeSwitchClosed
    /\ pc' = IF g_state.is_resetting_mode = 1
             THEN "resetting_load" ELSE "counting_load"
    /\ Commit(Mem)
    /\ last' = Did("mode", 0)
    /\ mode_events' = Append(mode_events, "release")
    /\ UNCHANGED <<previous_sync_input, reg, tap_ticks, samples,
               base_wraps, wraps>>

MainModeOpenedResetting ==
    \/ FlagLoad("resetting_load", "resetting_store")
    \/ FlagStore("resetting_store", "poll",
                 [reg EXCEPT !.is_resetting_mode = 0])

MainModeOpenedCounting ==
    \/ FlagLoad("counting_load", "counting_store")
    \/ FlagStore("counting_store", "mode_count",
                 [reg EXCEPT !.is_counting_mode_reset_time = 0])

MainModeOpenedCount ==
    /\ pc = "mode_count"
    /\ Commit([Mem EXCEPT !.g_mode_reset_ms_count = 0])
    /\ pc' = "mode_next"
    /\ last' = Did("mode", 0)
    /\ UNCHANGED <<previous_sync_input, reg, tap_ticks, samples,
               base_wraps, wraps, mode_events>>

MainModeOpenedNext ==
    /\ pc = "mode_next"
    /\ Commit(SetNextSelectionMode(Mem))
    /\ pc' = "poll"
    /\ last' = Did("mode_next", 0)
    /\ mode_events' = Append(mode_events, "next")
    /\ UNCHANGED <<previous_sync_input, reg, tap_ticks, samples,
               base_wraps, wraps>>

MainMode ==
    \/ MainModeClosed
    \/ MainModeOpenedTest
    \/ MainModeOpenedResetting
    \/ MainModeOpenedCounting
    \/ MainModeOpenedCount
    \/ MainModeOpenedNext

\* A call of f, which leaves the memory m, with argument arg.
Call(f, arg, m) ==
    /\ Commit(m)
    /\ last' = Did(f, arg)
    /\ UNCHANGED <<previous_sync_input, pc, reg, tap_ticks, samples,
               base_wraps, wraps, mode_events>>

SetBaseTempoCall(milliseconds) ==
    Call("SetBaseTempo", milliseconds, SetBaseTempo(Mem, milliseconds))

AdjustSpeedCall(change_value) ==
    Call("AdjustSpeed", change_value, AdjustSpeed(Mem, change_value))

ResetSpeedAdjustSettingCall ==
    Call("ResetSpeedAdjustSetting", 0, ResetSpeedAdjustSetting(Mem))

SetMultiplierCall(change_value) ==
    \E ub \in ConversionOutcomes :
        Call("SetMultiplier", change_value, SetMultiplier(Mem, change_value, ub))

ResetMultiplierSettingCall ==
    \E ub \in ConversionOutcomes :
        Call("ResetMultiplierSetting", 0, ResetMultiplierSetting(Mem, ub))

SetWaveformCall(change_value) ==
    Call("SetWaveform", change_value, SetWaveform(Mem, change_value))

ResetWaveformSettingCall ==
    Call("ResetWaveformSetting", 0, ResetWaveformSetting(Mem))

SetDepthCall(change_value) ==
    Call("SetDepth", change_value, SetDepth(Mem, change_value))

ResetDepthSettingCall ==
    Call("ResetDepthSetting", 0, ResetDepthSetting(Mem))

---------------------------------------------------------------------------
(* Bounds of the model.                                                    *)

\* The values of g_tempo_ms_count at which a tap closure or a sync edge may
\* end or restart a count in flight: below and at the fastest tempo, inside
\* the hysteresis window of the default tempo, and at the slowest tempo.
EdgeInstants == {49, 50, 998, LFO_MIN_TEMPO}

EdgeAllowed ==
    (g_state.is_counting_tempo = 1) => (g_tempo_ms_count \in EdgeInstants)

\* Sync edges the model takes in a row: a sync edge is taken only while
\* fewer than MaxSyncRun AlignWaveform() calls were made since the last tap.
MaxSyncRun == 2

\* 1 ms ticks that may preempt the background loop between a tap closure
\* and the end of the seeding that follows it.
MaxMainLag == 1

MainLagAllowed == (pc = "poll") \/ (g_tempo_ms_count < MaxMainLag)

---------------------------------------------------------------------------
(* Spec: the tap-count state machine over time (taps, sync edges, 1 ms    *)
(* ticks).                                                                 *)

Next ==
    \/ EdgeAllowed /\ MainTap
    \/ MainSeed
    \/ MainLagAllowed /\ TIM1_COMPA_vect
    \/ EdgeAllowed /\ g_multiplier_alignment_index < MaxSyncRun /\ PCINT1_vect

Spec == Init /\ [][Next]_vars

\* The timer keeps ticking and the background loop keeps running.
(* SpecTimeout: one tap or sync edge opens a count that runs to the        *)
(* timeout, the edges meeting it at its last tick only.                    *)
TimeoutAllowed ==
    (g_state.is_counting_tempo = 1) => (g_tempo_ms_count = LFO_MIN_TEMPO)

NextTimeout ==
    \/ TimeoutAllowed /\ MainTap
    \/ MainSeed
    \/ MainLagAllowed /\ TIM1_COMPA_vect
    \/ TimeoutAllowed /\ g_multiplier_alignment_index = 0 /\ PCINT1_vect

SpecTimeout == Init /\ [][NextTimeout]_vars

\* The timer interrupt recurs and the background loop never stops.
FairTimeout ==
    /\ SpecTimeout
    /\ WF_vars(MainLagAllowed /\ TIM1_COMPA_vect)
    /\ WF_vars(MainSeed)

---------------------------------------------------------------------------
(* SpecSet: the tempo interface called with arguments around its limits,   *)
(* between taps, sync edges and 1 ms ticks of short counts.                *)

\* Arguments of SetBaseTempo: outside the range on both sides, both limits,
\* and a tempo of 500 ms with its hysteresis window.
TempoInputs == {0, 49, 50, 500, 502, 503, LFO_MIN_TEMPO, 10001}

\* Arguments of AdjustSpeed.
TrimInputs == {-1, 1}

\* The speed trim is kept within MaxTrim of 0.
MaxTrim == 1

\* Counts are kept at or below MaxShortCount.
MaxShortCount == 51

\* Counts at which an edge or a call meets a count in flight.
SetInstants == {0, 49, LFO_MAX_TEMPO, MaxShortCount}

SetAllowed ==
    (g_state.is_counting_tempo = 1) => (g_tempo_ms_count \in SetInstants)

Abs(x) == IF x < 0 THEN 0 - x ELSE x

NextSet ==
    \/ \E ms \in TempoInputs : SetAllowed /\ SetBaseTempoCall(ms)
    \/ \E cv \in TrimInputs :
           /\ SetAllowed
           /\ Abs(g_tempo_adjust_offset + cv) <= MaxTrim
           /\ AdjustSpeedCall(cv)
    \/ SetAllowed /\ ResetSpeedAdjustSettingCall
    \/ SetAllowed /\ MainTap
    \/ MainSeed
    \/ MainLagAllowed /\ g_tempo_ms_count < MaxShortCount /\ TIM1_COMPA_vect
    \/ SetAllowed /\ g_multiplier_alignment_index < MaxSyncRun /\ PCINT1_vect

SpecSet == Init /\ [][NextSet]_vars

---------------------------------------------------------------------------
(* SpecAlign: taps, sync edges in runs of any length, and changes of the   *)
(* multiplier.                                                             *)

\* Arguments of SetMultiplier, SetWaveform and SetDepth: one detent of the
\* encoder either way.
Detents == {-1, 1}

NextAlign ==
    \/ MainTap
    \/ MainSeed
    \/ PCINT1_vect
    \/ \E cv \in Detents : SetMultiplierCall(cv)
    \/ ResetMultiplierSettingCall

SpecAlign == Init /\ [][NextAlign]_vars

---------------------------------------------------------------------------
(* SpecDepth: the waveform and depth interface.                            *)

NextDepth ==
    \/ \E cv \in Detents : SetWaveformCall(cv)
    \/ ResetWaveformSettingCall
    \/ \E cv \in Detents : SetDepthCall(cv)
    \/ ResetDepthSettingCall

SpecDepth == Init /\ [][NextDepth]_vars

---------------------------------------------------------------------------
(* SpecDDS: the settings are made before the first sample tick, then the   *)
(* sample ticks run past one base cycle of the fastest tempo.              *)

\* The sample ticks of a behaviour: 2^32 / g_base_duty_cycle is 1563 at
\* LFO_MAX_TEMPO, and 1594 one millisecond slower.
MaxSamples == 1600

\* The multiplier is kept within MaxMultiplierSteps of MultiplierQuarter.
MaxMultiplierSteps == 2

NextDDS ==
    \/ samples < MaxSamples /\ TIM0_OVF_vect
    \/ samples = 0 /\ SetBaseTempoCall(LFO_MAX_TEMPO)
    \/ \E cv \in Detents :
           /\ samples = 0
           /\ Abs((g_multiplier + cv) - MultiplierQuarter) <= MaxMultiplierSteps
           /\ SetMultiplierCall(cv)
    \/ \E cv \in TrimInputs :
           /\ samples = 0
           /\ Abs(g_tempo_adjust_offset + cv) <= MaxTrim
           /\ AdjustSpeedCall(cv)
    \/ /\ samples = 0
       /\ g_multiplier_alignment_index < MaxSyncRun
       /\ PCINT1_vect

SpecDDS == Init /\ [][NextDDS]_vars

---------------------------------------------------------------------------
(* SpecMode: the background loop's tap, seed and mode paths, among 1 ms    *)
(* ticks; the mode switch held up to its reset time.                       *)

\* Between two steps of one pass of the background loop, at most MaxMainLag
\* ticks of either count.
ModeLagAllowed ==
    \/ pc = "poll"
    \/ /\ g_tempo_ms_count < MaxMainLag
       /\ g_mode_reset_ms_count < MaxMainLag

\* The values of g_mode_reset_ms_count at which a switch changes while the
\* mode switch is held.
ModeInstants == {0, 1, MODE_RESET_MIN_TIME - 1}

ModeAllowed ==
    (g_state.is_counting_mode_reset_time = 1)
        => (g_mode_reset_ms_count \in ModeInstants)

NextMode ==
    \/ ModeAllowed /\ MainTap
    \/ MainSeed
    \/ (pc = "poll" => ModeAllowed) /\ MainMode
    \/ ModeLagAllowed /\ g_tempo_ms_count < MaxMainLag /\ TIM1_COMPA_vect

SpecMode == Init /\ [][NextMode]_vars

---------------------------------------------------------------------------
(* SpecHold: the mode switch is pressed and released, over and over, while *)
(* the 1 ms tick runs; the tick may come between any two steps of the      *)
(* background loop.                                                        *)

\* The values of g_mode_reset_ms_count at which the background loop finds
\* the mode switch opened after a short press: at once, after one tick, and
\* one tick before the hold becomes a reset.
HoldInstants == {0, 1, MODE_RESET_MIN_TIME - 1}

HoldAllowed ==
    (g_state.is_counting_mode_reset_time = 1)
        => (g_mode_reset_ms_count \in HoldInstants)

NextHold ==
    \/ MainModeClosed
    \/ HoldAllowed /\ MainModeOpenedTest
    \/ MainModeOpenedResetting
    \/ MainModeOpenedCounting
    \/ MainModeOpenedCount
    \/ MainModeOpenedNext
    \/ TIM1_COMPA_vect

SpecHold == Init /\ [][NextHold]_vars

---------------------------------------------------------------------------
(* SpecFlags: taps, sync edges, one press of the mode switch (held on)    *)
(* and the 1 ms tick, any handler coming between any two steps of the      *)
(* background loop, over the first ticks of the counts.                    *)

\* The 1 ms ticks a count is followed for.
MaxFlagTicks == 2

FlagTickAllowed ==
    /\ g_tempo_ms_count < MaxFlagTicks
    /\ g_mode_reset_ms_count < MaxFlagTicks

NextFlags ==
    \/ MainTap
    \/ MainSeed
    \/ MainModeClosed
    \/ FlagTickAllowed /\ TIM1_COMPA_vect
    \/ g_multiplier_alignment_index < MaxSyncRun /\ PCINT1_vect

SpecFlags == Init /\ [][NextFlags]_vars

---------------------------------------------------------------------------
(* SpecPhase: tempo, multiplier and sync edges are set before the first    *)
(* sample tick; the sample ticks then run, and at one of a few instants    *)
(* the multiplier is changed once, which ends the behaviour.               *)

\* The numbers of sample ticks after which the multiplier is changed: early
\* in the base cycle, past its middle, and after the wrap of the base
\* accumulator at LFO_MAX_TEMPO (1563 ticks).
PhaseInstants == {100, 800, 1590}

PhaseCallAllowed ==
    \/ samples = 0
    \/ (samples \in PhaseInstants) /\ (last.op = "sample")

NextPhase ==
    \/ /\ samples < MaxSamples
       /\ (samples = 0) \/ (last.op = "sample")
       /\ TIM0_OVF_vect
    \/ samples = 0 /\ SetBaseTempoCall(LFO_MAX_TEMPO)
    \/ \E cv \in Detents : PhaseCallAllowed /\ SetMultiplierCall(cv)
    \/ PhaseCallAllowed /\ ResetMultiplierSettingCall
    \/ /\ samples = 0
       /\ g_multiplier_alignment_index < MaxSyncRun
       /\ PCINT1_vect

SpecPhase == Init /\ [][NextPhase]_vars

---------------------------------------------------------------------------
(* SpecCycles: tempo and speed trim are set and the multiplier is brought  *)
(* to Eighth before the first sample tick; then only the sample ticks run, *)
(* through MaxCycles cycles of the base accumulator.                       *)

\* The base cycles of a behaviour.
MaxCycles == 3

\* The tempos set: the fastest, and one whose duty cycle is not a whole
\* number of steps per table entry.  DEFAULT_TEMPO is there from power-on.
CycleTempos == {LFO_MAX_TEMPO, 333}

NextCycles ==
    \/ /\ g_multiplier = MultiplierEighth
       /\ base_wraps < MaxCycles
       /\ TIM0_OVF_vect
    \/ \E ms \in CycleTempos : samples = 0 /\ SetBaseTempoCall(ms)
    \/ /\ samples = 0
       /\ g_multiplier < MultiplierEighth
       /\ SetMultiplierCall(1)
    \/ \E cv \in TrimInputs :
           /\ samples = 0
           /\ Abs(g_tempo_adjust_offset + cv) <= MaxTrim
           /\ AdjustSpeedCall(cv)

SpecCycles == Init /\ [][NextCycles]_vars

---------------------------------------------------------------------------
(* Claims.                                                                 *)

\* C1: in every reachable state, whatever taps, sync edges, 1 ms ticks and
\* calls of SetBaseTempo, AdjustSpeed and ResetSpeedAdjustSetting came
\* before, LFO_MAX_TEMPO <= g_base_tempo <= LFO_MIN_TEMPO.
C1_BaseTempoInRange ==
    (LFO_MAX_TEMPO <= g_base_tempo) /\ (g_base_tempo <= LFO_MIN_TEMPO)

\* A tap has just closed a count of exactly LFO_MAX_TEMPO ticks and the
\* fastest tempo is committed.
C1_Witness ==
    /\ last = Did("tap_close", LFO_MAX_TEMPO)
    /\ g_base_tempo = LFO_MAX_TEMPO

\* C2: a tap closure that finds the count opened by a tap n ticks before,
\* with no sync edge since, LFO_MAX_TEMPO <= n <= LFO_MIN_TEMPO and
\* |n - g_base_tempo| > 2, leaves the machine idle with g_base_tempo = n,
\* g_tempo_adjust_offset = 0, has_received_tap_input set and both duty
\* cycles computed for n.
C2_TapTempo ==
    [][(/\ MainTap
        /\ tap_ticks >= LFO_MAX_TEMPO
        /\ tap_ticks <= LFO_MIN_TEMPO
        /\ Abs(tap_ticks - g_base_tempo) > 2)
       => (/\ g_state'.is_counting_tempo = 0
           /\ g_state'.has_received_tap_input = 1
           /\ g_base_tempo' = tap_ticks
           /\ g_tempo_adjust_offset' = 0
           /\ g_base_duty_cycle' =
                  (TEMPO_TO_FREQUENCY * DUTY_CYCLE_DIVISOR) \div tap_ticks
           /\ g_duty_cycle' =
                  MulMicro(g_base_duty_cycle',
                           k_multiplier_ratio[g_multiplier' + 1]))]_vars

\* Two taps LFO_MIN_TEMPO ticks apart have set the slowest tempo.
C2_Witness ==
    /\ last = Did("tap_close", LFO_MIN_TEMPO)
    /\ g_base_tempo = LFO_MIN_TEMPO
    /\ g_state.is_counting_tempo = 0

\* C3: the 1 ms tick that takes g_tempo_ms_count beyond LFO_MIN_TEMPO leaves
\* the machine idle with the count cleared and g_base_tempo,
\* g_tempo_adjust_offset and both duty cycles as they were; and, the timer
\* ticking and the background loop running, a count in flight always ends.
C3_TapTimeout ==
    /\ [][(/\ MainLagAllowed /\ TIM1_COMPA_vect
           /\ g_state.is_counting_tempo = 1
           /\ g_tempo_ms_count + 1 > LFO_MIN_TEMPO)
          => (/\ g_state'.is_counting_tempo = 0
              /\ g_tempo_ms_count' = 0
              /\ UNCHANGED <<g_base_tempo, g_tempo_adjust_offset,
                             g_base_duty_cycle, g_duty_cycle>>)]_vars
    /\ ((g_state.is_counting_tempo = 1) ~> (g_state.is_counting_tempo = 0))

\* A count has just timed out.
C3_Witness ==
    /\ last = Did("timeout", 0)
    /\ g_state.is_counting_tempo = 0
    /\ g_tempo_ms_count = 0

\* C4: in every reachable state, after any taps, sync edges and changes of
\* the multiplier, 0 <= g_multiplier_alignment_index <= 11.
C4_AlignmentIndexInRange ==
    (0 <= g_multiplier_alignment_index)
        /\ (g_multiplier_alignment_index <= MULTIPLIER_ALIGNMENT_OFFSET - 1)

\* C5: in every state a sample tick can find, g_base_duty_cycle is the one
\* derived from g_base_tempo + g_tempo_adjust_offset and g_duty_cycle is
\* g_base_duty_cycle times the ratio of g_multiplier, truncated.
C5_DutyCycles ==
    /\ g_base_duty_cycle =
           (TEMPO_TO_FREQUENCY * DUTY_CYCLE_DIVISOR)
               \div U16(g_base_tempo + g_tempo_adjust_offset)
    /\ g_duty_cycle =
           MulMicro(g_base_duty_cycle, k_multiplier_ratio[g_multiplier + 1])

\* A sample tick has run at the eighth-note multiplier with a speed trim in
\* place.
C5_Witness ==
    /\ last = Did("sample", 0)
    /\ g_multiplier = MultiplierEighth
    /\ g_tempo_adjust_offset = 1
    /\ g_base_tempo = LFO_MAX_TEMPO

\* The table CalcDepthTable() builds for the current waveform and depth.
FreshDepthTable ==
    CalcDepthTable(Mem).g_depth_table

\* C6: after SetWaveform, ResetWaveformSetting, ResetDepthSetting, or a
\* SetDepth that changes g_depth_ratio, g_depth_table is the table
\* CalcDepthTable() builds for the new waveform and depth (here: whenever it
\* was that table before the call).
C6_DepthTableRebuilt ==
    [][(/\ g_depth_table = FreshDepthTable
        /\ \/ ResetWaveformSettingCall
           \/ ResetDepthSettingCall
           \/ \E cv \in Detents : SetWaveformCall(cv)
           \/ \E cv \in Detents :
                  SetDepthCall(cv) /\ (g_depth_ratio' # g_depth_ratio))
       => (g_depth_table' = FreshDepthTable')]_vars

\* The full-depth table of the sine waveform.
SineTable ==
    [i \in 0..255 |->
        IF i < 64 THEN k_sine_table[i + 1]
        ELSE IF i < 128 THEN 255 - k_sine_table[(127 - i) + 1]
        ELSE IF i < 192 THEN 255 - k_sine_table[(i - 128) + 1]
        ELSE k_sine_table[(255 - i) + 1]]

\* C7: in the state the first sample tick finds after initialisation,
\* g_base_tempo = 1000, the waveform is Sine, the multiplier Quarter,
\* g_depth_ratio = 100, g_depth_offset = 0 and g_depth_table is the
\* full-depth sine table.
C7_InitialState ==
    (last = Did("init", 0))
        => (/\ g_base_tempo = 1000
            /\ g_waveform = WaveformSine
            /\ g_multiplier = MultiplierQuarter
            /\ g_depth_ratio = 100
            /\ g_depth_offset = 0
            /\ g_depth_table = SineTable)

\* a' < a for the uint32_t pairs: the accumulator wrapped in this step.
Wrapped(a) == (a'[1] < a[1]) \/ ((a'[1] = a[1]) /\ (a'[2] < a[2]))

\* C8: a sample tick toggles the tempo output exactly when it wraps the
\* base phase accumulator, whatever the multiplier.
C8_TempoOutOncePerBaseCycle ==
    [][(samples < MaxSamples /\ TIM0_OVF_vect)
       => ((tempo_out' # tempo_out) <=> Wrapped(g_base_phase_accumulator))]_vars

\* C9: a sample tick that wraps the base phase accumulator runs
\* AlignWaveform(): with the multiplier changed by SetMultiplier and
\* g_multiplier_alignment_index a multiple of the multiplier's alignment,
\* the working phase accumulator restarts from 0 (0, or one step from 0 when
\* the alignment comes before the accumulation).
C9_AlignedAtBaseWrap ==
    [][(/\ samples < MaxSamples /\ TIM0_OVF_vect
        /\ Wrapped(g_base_phase_accumulator)
        /\ g_multiplier # MultiplierQuarter
        /\ g_multiplier_alignment_index
               % k_multiplier_alignment[g_multiplier + 1] = 0)
       => (\/ g_phase_accumulator' = Zero32
           \/ g_phase_accumulator' = Add32(Zero32, g_duty_cycle))]_vars

\* C10: SetBaseTempo(ms) with ms in range leaves g_base_tempo,
\* g_tempo_adjust_offset and both duty cycles alone when |ms - g_base_tempo|
\* <= 2, and otherwise commits g_base_tempo = ms and clears
\* g_tempo_adjust_offset.
C10_Hysteresis ==
    [][\A ms \in TempoInputs :
          (/\ SetBaseTempoCall(ms)
           /\ ms >= LFO_MAX_TEMPO
           /\ ms <= LFO_MIN_TEMPO)
          => IF Abs(ms - g_base_tempo) <= 2
             THEN UNCHANGED <<g_base_tempo, g_tempo_adjust_offset,
                              g_base_duty_cycle, g_duty_cycle>>
             ELSE /\ g_base_tempo' = ms
                  /\ g_tempo_adjust_offset' = 0]_vars

\* SetBaseTempo(502) has just been skipped at a tempo of 500 ms with a
\* speed trim in place.
C10_Witness ==
    /\ last = Did("SetBaseTempo", 502)
    /\ g_base_tempo = 500
    /\ g_tempo_adjust_offset # 0

\* C11: g_base_tempo + g_tempo_adjust_offset stays within [LFO_MAX_TEMPO,
\* LFO_MIN_TEMPO] under AdjustSpeed, ResetSpeedAdjustSetting, SetBaseTempo
\* and the commits of taps and sync edges; and an AdjustSpeed that would
\* leave the range changes neither g_tempo_adjust_offset nor a duty cycle.
C11_EffectiveTempoInRange ==
    /\ [](/\ LFO_MAX_TEMPO <= g_base_tempo + g_tempo_adjust_offset
          /\ g_base_tempo + g_tempo_adjust_offset <= LFO_MIN_TEMPO)
    /\ [][\A cv \in TrimInputs :
             (/\ AdjustSpeedCall(cv)
              /\ \/ g_base_tempo + g_tempo_adjust_offset + cv > LFO_MIN_TEMPO
                 \/ g_base_tempo + g_tempo_adjust_offset + cv < LFO_MAX_TEMPO)
             => UNCHANGED <<g_tempo_adjust_offset, g_base_duty_cycle,
                            g_duty_cycle>>]_vars

\* AdjustSpeed(-1) has just run at the fastest tempo, where only its
\* rejection keeps the effective tempo at LFO_MAX_TEMPO.
C11_Witness ==
    /\ last = Did("AdjustSpeed", -1)
    /\ g_base_tempo = LFO_MAX_TEMPO
    /\ g_tempo_adjust_offset = 0

\* C12: a tap closure or a rising sync edge that ends a count of fewer than
\* LFO_MAX_TEMPO ticks leaves the machine idle with g_tempo_ms_count = 0 and
\* g_base_tempo, g_tempo_adjust_offset and both duty cycles as they were.
C12_ShortCountRejected ==
    [][(/\ MainTap \/ (PCINT1_vect /\ previous_sync_input' = 1)
        /\ g_state.is_counting_tempo = 1
        /\ g_tempo_ms_count < LFO_MAX_TEMPO)
       => (/\ g_state'.is_counting_tempo = 0
           /\ g_tempo_ms_count' = 0
           /\ UNCHANGED <<g_base_tempo, g_tempo_adjust_offset,
                          g_base_duty_cycle, g_duty_cycle>>)]_vars

\* A tap has just closed a count of 49 ticks, and the default tempo stands.
C12_Witness ==
    /\ last = Did("tap_close", LFO_MAX_TEMPO - 1)
    /\ g_state.is_counting_tempo = 0
    /\ g_tempo_ms_count = 0
    /\ g_base_tempo = DEFAULT_TEMPO

\* The background loop stands between two writes of one update of several
\* shared variables: has_random_seed is stored and the generator not yet
\* seeded, or is_counting_mode_reset_time is stored and
\* g_mode_reset_ms_count not yet cleared.
MidUpdate == pc \in {"seed_srand", "mode_count"}

\* C13: no interrupt handler runs between two writes of one update of
\* several shared variables by the background loop, on the tap path, the
\* mode-switch path and the seed path alike.
C13_CompositeUpdatesAtomic ==
    [][(TIM0_OVF_vect \/ TIM1_COMPA_vect \/ PCINT1_vect) => ~MidUpdate]_vars

\* C14: the generator is seeded from a tap at the first successful tap only:
\* the seeding step runs after a tap that completed a count and set
\* has_received_tap_input.
C14_SeededAtFirstSuccessfulTap ==
    [][MainSeedRand
       => (/\ g_state.has_received_tap_input = 1
           /\ g_state.is_counting_tempo = 0)]_vars

\* C15: every entry of g_depth_table lies in [g_depth_offset, 255], for
\* every waveform and depth reached through SetWaveform, SetDepth,
\* ResetDepthSetting and ResetWaveformSetting.
C15_DepthTableInRange ==
    \A i \in 0..(WAVEFORM_RESOLUTION - 1) :
        (g_depth_offset <= g_depth_table[i]) /\ (g_depth_table[i] <= 255)

\* The square waveform at half depth, just selected.
C15_Witness ==
    /\ last.op = "SetWaveform"
    /\ g_waveform = WaveformSquare
    /\ g_depth_ratio = 50
    /\ g_depth_offset = 127

\* C16: from any reachable state, SetWaveform(+1) followed by
\* SetWaveform(-1) gives back the waveform and, entry for entry, the
\* g_depth_table held before the two calls (stated for the states whose
\* table has been built at least once, i.e. is not the zero-filled one).
C16_WaveformRoundTrip ==
    LET m2 == SetWaveform(SetWaveform(Mem, 1), -1)
    IN  (\E i \in 0..(WAVEFORM_RESOLUTION - 1) : g_depth_table[i] # 0)
            => (/\ m2.g_waveform = g_waveform
                /\ m2.g_depth_table = g_depth_table)

\* C17: SetDepth(+1) followed by SetDepth(-1) from g_depth_ratio <= 95, and
\* SetDepth(-1) followed by SetDepth(+1) from g_depth_ratio >= 5, give back
\* g_depth_ratio and g_depth_offset.
C17_DepthRoundTrip ==
    LET up   == SetDepth(SetDepth(Mem, 1), -1)
        down == SetDepth(SetDepth(Mem, -1), 1)
    IN  /\ (g_depth_ratio <= 95)
               => (/\ up.g_depth_ratio = g_depth_ratio
                   /\ up.g_depth_offset = g_depth_offset)
        /\ (g_depth_ratio >= 5)
               => (/\ down.g_depth_ratio = g_depth_ratio
                   /\ down.g_depth_offset = g_depth_offset)

\* SetDepth(+1) has just stepped up from a depth of 0: a state from which
\* the way down and back up passes the clamped end.
C17_Witness ==
    /\ last = Did("SetDepth", 1)
    /\ g_depth_ratio = 5
    /\ g_depth_offset = 242

\* The working phase accumulators AdjustPhaseAccumulation() may leave, the
\* multiplier being multiplier.
AdjustedPhases(multiplier) ==
    {AdjustPhaseAccumulation([Mem EXCEPT !.g_multiplier = multiplier],
                             ub).g_phase_accumulator :
        ub \in ConversionOutcomes}

\* C18: SetMultiplier(-1) at Whole and SetMultiplier(+1) at Sixteenth leave
\* the multiplier, both duty cycles and the working phase accumulator as
\* they were; g_multiplier is always one of the 10 multipliers; and a
\* SetMultiplier or ResetMultiplierSetting that changes the multiplier
\* recomputes g_duty_cycle for it and sets the working phase accumulator as
\* AdjustPhaseAccumulation() does.
C18_MultiplierSaturates ==
    /\ [](g_multiplier \in 0..(MultiplierCount - 1))
    /\ [][\A cv \in Detents :
             SetMultiplierCall(cv)
             => IF \/ (g_multiplier = MultiplierWhole) /\ (cv < 0)
                   \/ (g_multiplier = MultiplierSixteenth) /\ (cv > 0)
                THEN UNCHANGED <<g_multiplier, g_base_duty_cycle,
                                 g_duty_cycle, g_phase_accumulator>>
                ELSE /\ g_multiplier' = g_multiplier + cv
                     /\ g_duty_cycle' =
                            MulMicro(g_base_duty_cycle,
                                     k_multiplier_ratio[g_multiplier' + 1])
                     /\ g_phase_accumulator' \in AdjustedPhases(g_multiplier')]_vars
    /\ [][(ResetMultiplierSettingCall /\ g_multiplier # MultiplierQuarter)
          => (/\ g_multiplier' = MultiplierQuarter
              /\ g_duty_cycle' = g_base_duty_cycle
              /\ g_phase_accumulator' \in AdjustedPhases(MultiplierQuarter))]_vars

\* SetMultiplier(+1) has just run at Sixteenth after 800 sample ticks at the
\* fastest tempo, and the working phase accumulator stands where the ticks
\* left it (800 * 10995040 modulo 2^32).
C18_Witness ==
    /\ last = Did("SetMultiplier", 1)
    /\ g_multiplier = MultiplierSixteenth
    /\ samples = 800
    /\ g_duty_cycle = 10995040
    /\ g_phase_accumulator = <<3144, 52224>>


\* The phase a working accumulator holds after n sample ticks from 0 at
\* duty cycle duty: n * duty modulo 2^32, as a pair of 16-bit words.
ExpectedPhase(n, duty) ==
    LET lo == n * (duty % 65536)
        hi == (n * (duty \div 65536)) + (lo \div 65536)
    IN  <<hi % 65536, lo % 65536>>

\* The uint32_t pairs a and b differ by less than 2^17 modulo 2^32: the
\* rounding allowed between two ways of computing a phase.
Close(a, b) ==
    ((a[1] - b[1]) % 65536) \in {0, 1, 65535}

\* C20: a SetMultiplier or ResetMultiplierSetting call that changes the
\* multiplier leaves the working phase accumulator, up to rounding, at
\* samples * g_duty_cycle modulo 2^32 for the new duty cycle, the working
\* phase having been 0 when samples was 0.
C20_PhaseAsIfRunAtNewDuty ==
    [][( /\ samples > 0
         /\ g_multiplier' # g_multiplier
         /\ \/ \E cv \in Detents : SetMultiplierCall(cv)
            \/ ResetMultiplierSettingCall )
       => Close(g_phase_accumulator', ExpectedPhase(samples, g_duty_cycle'))]_vars

\* C19: with the multiplier at Eighth and nothing but sample ticks from
\* both accumulators at 0, the sample tick that wraps the base accumulator
\* for the N-th time brings the wraps of the working table index to 2N; in
\* between, the working index is at most one wrap ahead.
C19_TwoWrapsPerBaseCycle ==
    /\ []((g_multiplier = MultiplierEighth)
          => (wraps \in {2 * base_wraps, (2 * base_wraps) + 1}))
    /\ [][(TIM0_OVF_vect /\ (base_wraps' = base_wraps + 1))
          => (wraps' = 2 * base_wraps')]_vars

\* The third wrap of the base accumulator at LFO_MAX_TEMPO has just
\* happened, and the working table index has wrapped six times.
C19_Witness ==
    /\ g_base_tempo = LFO_MAX_TEMPO
    /\ g_tempo_adjust_offset = 0
    /\ g_multiplier = MultiplierEighth
    /\ last.op = "sample"
    /\ base_wraps = 3
    /\ wraps = 6

\* C21: a rising sync edge during a count ends the count and leaves the
\* tempo as SetBaseTempo(g_tempo_ms_count) leaves it; a rising edge outside a
\* count leaves g_base_tempo, g_tempo_adjust_offset and both duty cycles
\* alone; a falling edge always zeroes g_tempo_ms_count and starts a count.
C21_SyncEdges ==
    [][PCINT1_vect
       => IF previous_sync_input = 0
          THEN /\ g_state'.is_counting_tempo = 0
               /\ g_tempo_ms_count' = 0
               /\ IF g_state.is_counting_tempo = 1
                  THEN LET m == SetBaseTempo(Mem, g_tempo_ms_count)
                       IN  /\ g_base_tempo' = m.g_base_tempo
                           /\ g_tempo_adjust_offset' = m.g_tempo_adjust_offset
                           /\ g_base_duty_cycle' = m.g_base_duty_cycle
                           /\ g_duty_cycle' = m.g_duty_cycle
                  ELSE UNCHANGED <<g_base_tempo, g_tempo_adjust_offset,
                                   g_base_duty_cycle, g_duty_cycle>>
          ELSE /\ g_state'.is_counting_tempo = 1
               /\ g_tempo_ms_count' = 0
               /\ UNCHANGED <<g_base_tempo, g_tempo_adjust_offset,
                              g_base_duty_cycle, g_duty_cycle>>]_vars

\* A rising sync edge has just ended a count of LFO_MAX_TEMPO ticks, which
\* is now the base tempo.
C21_Witness ==
    /\ last = Did("sync", 1)
    /\ g_state.is_counting_tempo = 0
    /\ g_base_tempo = LFO_MAX_TEMPO
    /\ g_tempo_ms_count = 0

\* The windows of the four pulses of QuadPulse.
InPulse(i) == (i < 112) /\ ((i \div 16) % 2 = 0)

\* C22: a g_depth_table built for Square holds CalcSignalDepth(0) below entry
\* 128 and CalcSignalDepth(255) from it on, and one built for QuadPulse holds
\* CalcSignalDepth(255) inside the four pulses and CalcSignalDepth(0)
\* elsewhere, at every depth.
C22_PulseTablesScaled ==
    (g_depth_table = FreshDepthTable)
        => /\ (g_waveform = WaveformSquare)
                  => \A i \in 0..(WAVEFORM_RESOLUTION - 1) :
                         g_depth_table[i] =
                             CalcSignalDepth(Mem, IF i < 128 THEN 0 ELSE 255)
           /\ (g_waveform = WaveformQuadPulse)
                  => \A i \in 0..(WAVEFORM_RESOLUTION - 1) :
                         g_depth_table[i] =
                             CalcSignalDepth(Mem, IF InPulse(i) THEN 255 ELSE 0)

\* C23: g_depth_ratio is a multiple of 5 in 0..100 and g_depth_offset is
\* floor(255 * (100 - g_depth_ratio) / 100) after any calls of SetDepth and
\* ResetDepthSetting; SetDepth(-1) at 0 and SetDepth(+1) at 100 leave the
\* ratio, the offset and g_depth_table as they were.
C23_DepthOnGrid ==
    /\ [](/\ g_depth_ratio \in {5 * k : k \in 0..20}
          /\ g_depth_offset = (255 * (100 - g_depth_ratio)) \div 100)
    /\ [][\A cv \in Detents :
             (/\ SetDepthCall(cv)
              /\ \/ (cv < 0) /\ (g_depth_ratio = 0)
                 \/ (cv > 0) /\ (g_depth_ratio = 100))
             => UNCHANGED <<g_depth_ratio, g_depth_offset, g_depth_table>>]_vars

\* SetDepth(+1) has just run at full depth and has not rebuilt the table,
\* which is not the table of the current waveform.
C23_Witness ==
    /\ last = Did("SetDepth", 1)
    /\ g_depth_ratio = 100
    /\ g_depth_offset = 0
    /\ g_depth_table # FreshDepthTable

\* How often event e is among mode_events.
ModeEventCount(e) ==
    Cardinality({k \in 1..Len(mode_events) : mode_events[k] = e})

\* C24: when the background loop is through with a release of the mode
\* switch, the press has led to exactly one of ResetCurrentSelectionMode()
\* and SetNextSelectionMode(), and is_resetting_mode,
\* is_counting_mode_reset_time and g_mode_reset_ms_count are 0.
C24_OneModeActionPerPress ==
    (/\ pc = "poll"
     /\ mode_events # <<>>
     /\ ~ModeSwitchClosed)
        => /\ ModeEventCount("reset") + ModeEventCount("next") = 1
           /\ g_state.is_resetting_mode = 0
           /\ g_state.is_counting_mode_reset_time = 0
           /\ g_mode_reset_ms_count = 0

\* C25: between the steps of the handlers and of the critical sections,
\* g_tempo_ms_count is 0 when no count is in flight, and never above
\* LFO_MIN_TEMPO.
C25_TapCounterConsistent ==
    /\ (g_state.is_counting_tempo = 0) => (g_tempo_ms_count = 0)
    /\ g_tempo_ms_count <= LFO_MIN_TEMPO

\* The positions of the background loop before the store of a flag
\* assignment, with the flag assigned.
StoredFlag ==
    [seed_store      |-> "has_random_seed",
     closed_store    |-> "is_counting_mode_reset_time",
     resetting_store |-> "is_resetting_mode",
     counting_store  |-> "is_counting_mode_reset_time"]

\* C26: the store that ends an assignment of one flag by the background loop
\* changes no other flag of g_state: what a handler wrote to the other flags
\* since the load is kept.
C26_NoLostFlagUpdate ==
    [][((pc \in DOMAIN StoredFlag) /\ (pc' # pc))
       => \A f \in (DOMAIN g_state) \ {StoredFlag[pc]} :
              g_state'[f] = g_state[f]]_vars

===========================================================================
